---- MODULE Spec2Model ----
(***************************************************************************)
(* Viewport tracker of src/app/page.tsx (HomePage): the map widget's       *)
(* map-ready and idle events run fetchData, which gates on the zoom,       *)
(* sends one query to /api/states and, when the response is handled,       *)
(* replaces the aircraft record set (React state aircraftData).            *)
(*                                                                         *)
(* JavaScript values are tagged records [t, v]; a StateVector is a         *)
(* function over the indices 0..n-1 of the positional array.               *)
(***************************************************************************)
EXTENDS Integers, Sequences, FiniteSets, TLC

VARIABLES
    apiKey,        \* process.env.NEXT_PUBLIC_Maps_API_KEY is set
    isLoaded,      \* useJsApiLoader: script loaded
    loadError,     \* useJsApiLoader: script failed
    instance,      \* the google.maps.Map object exists (GoogleMap mounted)
    map,           \* React state map (useState, null at first)
    zoom,          \* what map.getZoom() returns now
    bounds,        \* what map.getBounds() returns now
    aircraftData,  \* React state aircraftData, the layer's data
    sent,          \* the requests made with fetch, in order
    inflight,      \* fetchData invocations suspended at await fetch
    lastFailed,    \* id of the latest-issued query that failed, 0: none
    dataFrom,      \* id of the query aircraftData was decoded from, 0: none
    events,        \* map-ready and idle signals delivered by the widget
    runs,          \* times fetchData ran its gate/query decision
    uncaught,      \* an exception left fetchData (unhandled rejection)
    last,          \* what the latest handler step read and did
    gated,         \* the latest event's fetchData took the zoom gate
    viewState,     \* React state viewState, the overlay's view
    gateway        \* one invocation of the Gateway's GET (route.ts)

vars == <<apiKey, isLoaded, loadError, instance, map, zoom, bounds,
          aircraftData, sent, inflight, lastFailed, dataFrom,
          events, runs, uncaught, last, gated, viewState, gateway>>

----------------------------------------------------------------------------
(* Bounds of the model *)

\* map-ready plus idle signals delivered in one behaviour
MaxEvents == 2
\* longest `states` array of a response, in Spec
MaxStates == 1
\* longest `states` array of a response, in SpecDecode
MaxDecodeStates == 3

----------------------------------------------------------------------------
(* JavaScript values *)

Undefined == [t |-> "undefined", v |-> 0]
Null == [t |-> "null", v |-> 0]
Num(n) == [t |-> "number", v |-> n]
Str(s) == [t |-> "string", v |-> s]
Bool(b) == [t |-> "boolean", v |-> b]
Arr(s) == [t |-> "array", v |-> s]

\* a ?? b
Coalesce(a, b) == IF a = Null \/ a = Undefined THEN b ELSE a

\* a || b for the values used here (arrays and objects are truthy)
OrElse(a, b) ==
    IF a = Null \/ a = Undefined \/ a = Num(0) \/ a = Str("") \/ a = Bool(FALSE)
    THEN b ELSE a

\* state[i] of a positional array: undefined past its end
At(state, i) == IF i \in DOMAIN state THEN state[i] ELSE Undefined

----------------------------------------------------------------------------
(* Template literal `${n}` of an integer: sign and decimal digits, as a    *)
(* sequence of characters.                                                 *)

DigitChar == <<"0", "1", "2", "3", "4", "5", "6", "7", "8", "9">>

RECURSIVE Digits(_)
Digits(n) ==
    IF n < 10 THEN <<DigitChar[n + 1]>>
    ELSE Digits(n \div 10) \o <<DigitChar[(n % 10) + 1]>>

NumberToString(n) == IF n < 0 THEN <<"-">> \o Digits(-n) ELSE Digits(n)

----------------------------------------------------------------------------
(* The widget: zoom levels and bounds it can report *)

NoMap == "null"
TheMap == "map"

ZoomThreshold == 7

Zooms == {Undefined, Num(6), Num(7)}

LatLng(la, ln) == [lat |-> la, lng |-> ln]
LatLngBounds(s, n) == [t |-> "bounds", sw |-> s, ne |-> n]
NoBounds == [t |-> "undefined", sw |-> LatLng(0, 0), ne |-> LatLng(0, 0)]
BoundsTokyo == LatLngBounds(LatLng(34, 138), LatLng(36, 140))
BoundsRio == LatLngBounds(LatLng(-23, -44), LatLng(-22, -43))
BoundsSet == {NoBounds, BoundsTokyo, BoundsRio}

\* map.getCenter(): a LatLng, or undefined before the widget has a center
NoCenter == [t |-> "undefined", lat |-> 0, lng |-> 0]
CenterTokyo == [t |-> "center", lat |-> 35, lng |-> 139]
CenterRio == [t |-> "center", lat |-> -22, lng |-> -43]
Centers == {NoCenter, CenterTokyo, CenterRio}

----------------------------------------------------------------------------
(* StateVector: the positional array of one aircraft (interface            *)
(* StateVector). len is the array's length: 18 with a category, 17         *)
(* without, fewer for a truncated array.                                   *)

StateVector(icao24, longitude, latitude, on_ground, true_track, len) ==
    [i \in 0..(len - 1) |->
        CASE i = 0 -> Str(icao24)
          [] i = 1 -> Null
          [] i = 2 -> Str("Japan")
          [] i = 3 -> Null
          [] i = 4 -> Num(1700)
          [] i = 5 -> longitude
          [] i = 6 -> latitude
          [] i = 7 -> Num(9000)
          [] i = 8 -> Bool(on_ground)
          [] i = 9 -> Null
          [] i = 10 -> true_track
          [] i = 11 -> Null
          [] i = 12 -> Null
          [] i = 13 -> Null
          [] i = 14 -> Str("7000")
          [] i = 15 -> Bool(FALSE)
          [] i = 16 -> Num(0)
          [] OTHER -> Num(3)]

SvAir == StateVector("a1", Num(139), Num(35), FALSE, Num(90), 18)
SvGround == StateVector("d4", Num(0), Num(36), TRUE, Null, 17)
SvNoLon == StateVector("b2", Null, Num(35), TRUE, Num(180), 18)
SvNoLat == StateVector("c3", Num(139), Null, FALSE, Num(0), 18)
SvShort == StateVector("e5", Null, Null, FALSE, Null, 5)

StateVectors == {SvAir, SvGround, SvNoLon, SvNoLat, SvShort}

\* one more retained vector, heading south, for SpecDecode
SvSouth == StateVector("f6", Num(-43), Num(-22), FALSE, Num(180), 18)
DecodeStateVectors == StateVectors \cup {SvSouth}

RECURSIVE SeqsUpTo(_, _)
SeqsUpTo(S, n) ==
    IF n = 0 THEN {<<>>}
    ELSE LET shorter == SeqsUpTo(S, n - 1)
         IN shorter \cup {Append(s, x) : s \in shorter, x \in S}

----------------------------------------------------------------------------
(* What the await of fetch(...) and response.json() can produce *)

Unparseable == [t |-> "unparseable", states |-> Undefined]
JsonNull == [t |-> "null", states |-> Undefined]
JsonObject(states) == [t |-> "object", states |-> states]

Rejected == [kind |-> "rejected", status |-> 0, json |-> Unparseable]
Http(status, json) == [kind |-> "http", status |-> status, json |-> json]
NoResponse == [kind |-> "none", status |-> 0, json |-> Unparseable]

OkBodies ==
    {Unparseable, JsonNull, JsonObject(Undefined), JsonObject(Null)}
        \cup {JsonObject(Arr(s)) : s \in SeqsUpTo(StateVectors, MaxStates)}

Responses ==
    {Rejected}
        \cup {Http(s, JsonObject(Undefined)) : s \in {503}}
        \cup {Http(200, b) : b \in OkBodies}

\* the responses SpecDecode decodes
DecodeResponses ==
    {Rejected, Http(503, JsonObject(Undefined))}
        \cup {Http(200, b) : b \in
                {Unparseable, JsonNull, JsonObject(Undefined), JsonObject(Null)}
                    \cup {JsonObject(Arr(s)) :
                            s \in SeqsUpTo(DecodeStateVectors, MaxDecodeStates)}}

\* the responses SpecView completes queries with: a rejected fetch, a
\* non-success status, an empty and a non-empty success
ViewResponses ==
    {Rejected, Http(503, JsonObject(Undefined)),
     Http(200, JsonObject(Arr(<<>>))), Http(200, JsonObject(Arr(<<SvAir>>)))}

\* response.ok
ResponseOk(response) == response.status \in 200..299

----------------------------------------------------------------------------
(* Decoding of a successful response, fetchData lines 190-213 *)

KeepStateLongitudeOnly(state) ==
    At(state, 5) # Null /\ At(state, 5) # Undefined

\* the filter's predicate
KeepState(state) ==
    /\ At(state, 5) # Null
    /\ At(state, 6) # Null
    /\ At(state, 5) # Undefined
    /\ At(state, 6) # Undefined

ToAircraftDataTrackFromVelocity(state) ==
    [icao24 |-> At(state, 0),
     callsign |-> Coalesce(At(state, 1), Undefined),
     origin_country |-> At(state, 2),
     time_position |-> Coalesce(At(state, 3), Undefined),
     last_contact |-> At(state, 4),
     longitude |-> At(state, 5),
     latitude |-> At(state, 6),
     baro_altitude |-> Coalesce(At(state, 7), Undefined),
     on_ground |-> At(state, 8),
     velocity |-> Coalesce(At(state, 9), Undefined),
     true_track |-> Coalesce(At(state, 9), Num(0)),
     vertical_rate |-> Coalesce(At(state, 11), Undefined),
     sensors |-> Coalesce(At(state, 12), Undefined),
     geo_altitude |-> Coalesce(At(state, 13), Undefined),
     squawk |-> Coalesce(At(state, 14), Undefined),
     spi |-> At(state, 15),
     position_source |-> At(state, 16),
     category |-> Coalesce(At(state, 17), Num(0))]

\* the map's callback: one AircraftData per retained StateVector
ToAircraftData(state) ==
    [icao24 |-> At(state, 0),
     callsign |-> Coalesce(At(state, 1), Undefined),
     origin_country |-> At(state, 2),
     time_position |-> Coalesce(At(state, 3), Undefined),
     last_contact |-> At(state, 4),
     longitude |-> At(state, 5),
     latitude |-> At(state, 6),
     baro_altitude |-> Coalesce(At(state, 7), Undefined),
     on_ground |-> At(state, 8),
     velocity |-> Coalesce(At(state, 9), Undefined),
     true_track |-> Coalesce(At(state, 10), Num(0)),
     vertical_rate |-> Coalesce(At(state, 11), Undefined),
     sensors |-> Coalesce(At(state, 12), Undefined),
     geo_altitude |-> Coalesce(At(state, 13), Undefined),
     squawk |-> Coalesce(At(state, 14), Undefined),
     spi |-> At(state, 15),
     position_source |-> At(state, 16),
     category |-> Coalesce(At(state, 17), Num(0))]

\* .map(...) over the retained StateVectors, in order
RECURSIVE MapToAircraftData(_)
MapToAircraftData(kept) ==
    IF kept = <<>> THEN <<>>
    ELSE <<ToAircraftData(Head(kept))>> \o MapToAircraftData(Tail(kept))

\* formattedData for a parsed object `data`:
\* (data.states || []).filter(...).map(...)
FormattedData(data) ==
    MapToAircraftData(SelectSeq(OrElse(data.states, Arr(<<>>)).v, KeepState))

----------------------------------------------------------------------------
(* The completion of one query, fetchData lines 183-218: what the rest of  *)
(* the invocation does to aircraftData once fetch has settled.             *)
(* outcome: "success", "notok" (response.ok false) or "caught" (catch).    *)
(* propagated: the exception left fetchData.                               *)

NotOkKeepsData(data) ==
    [outcome |-> "notok", data |-> data, propagated |-> FALSE]

\* lines 185-189: log, setAircraftData([]), return
NotOk(data) ==
    [outcome |-> "notok", data |-> <<>>, propagated |-> FALSE]

\* lines 215-218: log, setAircraftData([])
Catch(data) ==
    [outcome |-> "caught", data |-> <<>>, propagated |-> FALSE]

SuccessMerges(json, data) ==
    [outcome |-> "success", data |-> data \o FormattedData(json),
     propagated |-> FALSE]

\* lines 191-213: setAircraftData(formattedData)
Success(json, data) ==
    [outcome |-> "success", data |-> FormattedData(json),
     propagated |-> FALSE]

\* lines 185-218, for the settled `response` and the current aircraftData:
\* a rejected fetch, a body that does not parse and a null body (reading
\* data.states throws) all reach the catch block
HandleResponse(response, data) ==
    IF response.kind = "rejected" THEN Catch(data)
    ELSE IF ~ResponseOk(response) THEN NotOk(data)
    ELSE IF response.json.t = "unparseable" THEN Catch(data)
    ELSE IF response.json.t = "null" THEN Catch(data)
    ELSE Success(response.json, data)

----------------------------------------------------------------------------
(* fetchData up to its await, lines 157-184 *)

ZoomGateBelowSix(currentZoom) ==
    currentZoom = Undefined \/ currentZoom.v < ZoomThreshold - 1

\* line 161: currentZoom === undefined || currentZoom < 7
ZoomGate(currentZoom) ==
    currentZoom = Undefined \/ currentZoom.v < ZoomThreshold

BoundsNeverMissing(b) == FALSE

\* line 168: !bounds
BoundsMissing(b) == b = NoBounds

MapBoundsSwapped(b) ==
    [lamin |-> b.ne.lat, lomin |-> b.sw.lng,
     lamax |-> b.sw.lat, lomax |-> b.ne.lng]

\* lines 173-180
MapBounds(b) ==
    [lamin |-> b.sw.lat, lomin |-> b.sw.lng,
     lamax |-> b.ne.lat, lomax |-> b.ne.lng]

\* line 184: the request of the template literal
Url(mapBounds) ==
    [path |-> "/api/states",
     lamin |-> NumberToString(mapBounds.lamin),
     lomin |-> NumberToString(mapBounds.lomin),
     lamax |-> NumberToString(mapBounds.lamax),
     lomax |-> NumberToString(mapBounds.lomax)]

FetchTwice(requests, url) == Append(Append(requests, url), url)

FetchDeduplicated(requests, url) ==
    IF \E i \in DOMAIN requests : requests[i] = url
    THEN requests ELSE Append(requests, url)

\* line 184: one call of fetch
Fetch(requests, url) == Append(requests, url)

PendingAfterGateCancelled(pending) == {}

\* lines 160-165: the gate branch clears the records and returns; it holds
\* no handle on the invocations suspended at line 184
PendingAfterGate(pending) == pending

\* which branch a handler step took, kept for the properties
Step(branch) ==
    [ev |-> branch, qid |-> 0, response |-> NoResponse, center |-> NoCenter]

\* fetchData(currentMap), with z and b what getZoom() and getBounds() return
fetchData(currentMap, z, b) ==
    IF currentMap = NoMap
    THEN /\ last' = Step("ignored")
         /\ UNCHANGED <<aircraftData, sent, inflight, dataFrom, runs, gated>>
    ELSE /\ runs' = runs + 1
         /\ IF ZoomGate(z)
            THEN /\ aircraftData' = <<>>
                 /\ dataFrom' = 0
                 /\ last' = Step("gate")
                 /\ gated' = TRUE
                 /\ inflight' = PendingAfterGate(inflight)
                 /\ UNCHANGED sent
            ELSE IF BoundsMissing(b)
            THEN /\ last' = Step("skip")
                 /\ gated' = FALSE
                 /\ UNCHANGED <<aircraftData, sent, inflight, dataFrom>>
            ELSE /\ sent' = Fetch(sent, Url(MapBounds(b)))
                 /\ inflight' = inflight \cup {Len(sent')}
                 /\ last' = Step("query")
                 /\ gated' = FALSE
                 /\ UNCHANGED <<aircraftData, dataFrom>>

----------------------------------------------------------------------------
(* The IconLayer's accessors, lines 261-278: what the overlay draws for    *)
(* each record of aircraftData on every render.                            *)

\* d.x used as a condition
Truthy(a) == a \notin {Null, Undefined, Num(0), Str(""), Bool(FALSE)}

\* line 272
GetPosition(d) ==
    <<OrElse(d.longitude, Num(0)).v, OrElse(d.latitude, Num(0)).v,
      OrElse(d.baro_altitude, Num(0)).v>>

GetSizeSwapped(d) == IF Truthy(d.on_ground) THEN 20 ELSE 10

\* line 273
GetSize(d) == IF Truthy(d.on_ground) THEN 10 ELSE 20

\* line 274
GetColor(d) ==
    IF Truthy(d.on_ground) THEN <<255, 0, 0, 200>> ELSE <<0, 255, 0, 200>>

GetAngleCompass(d) == OrElse(d.true_track, Num(0)).v + 90

\* line 275: -(d.true_track || 0) + 90
GetAngle(d) == (0 - OrElse(d.true_track, Num(0)).v) + 90

\* the icons of the current render
IconLayer ==
    [i \in DOMAIN aircraftData |->
        [position |-> GetPosition(aircraftData[i]),
         size |-> GetSize(aircraftData[i]),
         color |-> GetColor(aircraftData[i]),
         angle |-> GetAngle(aircraftData[i])]]

----------------------------------------------------------------------------
(* The mirrored view state, lines 232-238 *)

InitialViewState ==
    [longitude |-> CenterTokyo.lng, latitude |-> CenterTokyo.lat,
     zoom |-> ZoomThreshold, pitch |-> 0, bearing |-> 0]

----------------------------------------------------------------------------
(* The Gateway: GET of api/states/route.ts. One invocation serves one      *)
(* request: it reads the four parameters, calls upstream once and answers. *)

ParamNames == <<"lamin", "lomin", "lamax", "lomax">>

\* the coordinates of the requests served, whole degrees
ParamValues == {-23, 10, 20}

\* percent-decoding of one character of a query value: "+" is a space,
\* digits and "-" stand for themselves
DecodeChar(c) == IF c = "+" THEN " " ELSE c

\* lines 4-8: searchParams.get(name), null when the query has no such name
SearchParamsGet(query, name) ==
    IF name \in DOMAIN query
    THEN Str([i \in DOMAIN query[name] |-> DecodeChar(query[name][i])])
    ELSE Null

\* `${v}` of what searchParams.get returned
TemplateValue(v) == IF v = Null THEN <<"n", "u", "l", "l">> ELSE v.v

OpenSkyURLSwapped(lamin, lomin, lamax, lomax) ==
    [origin |-> "https://opensky-network.org", path |-> "/api/states/all",
     query |-> <<<<"lamin", TemplateValue(lamax)>>,
                 <<"lomin", TemplateValue(lomin)>>,
                 <<"lamax", TemplateValue(lamin)>>,
                 <<"lomax", TemplateValue(lomax)>>>>]

\* line 10
OpenSkyURL(lamin, lomin, lamax, lomax) ==
    [origin |-> "https://opensky-network.org", path |-> "/api/states/all",
     query |-> <<<<"lamin", TemplateValue(lamin)>>,
                 <<"lomin", TemplateValue(lomin)>>,
                 <<"lamax", TemplateValue(lamax)>>,
                 <<"lomax", TemplateValue(lomax)>>>>]

\* a body as text: the JSON value it denotes (Unparseable: none) and
\* whether the text carries insignificant white space
BodyText(value, spaced) == [value |-> value, spaced |-> spaced]

\* JSON.stringify: the compact text of a value
JsonStringify(value) == BodyText(value, FALSE)

\* JSON.parse: the value, or a SyntaxError
JsonParse(text) ==
    IF text.value = Unparseable
    THEN [kind |-> "throw", isError |-> TRUE, message |-> "Unexpected token"]
    ELSE [kind |-> "value", value |-> text.value]

\* the object { error: text }, text the pieces of the template literal
ErrorObject(text) == [t |-> "object", error |-> text]

\* NextResponse.json(body, { status })
NextResponseJson(body, status) ==
    [status |-> status, body |-> JsonStringify(body)]

\* NextResponse.json(body): status 200
NextResponseJsonOk(body) == NextResponseJson(body, 200)

\* what the awaited upstream fetch can produce
UpstreamRejected ==
    [kind |-> "rejected", status |-> 0, statusText |-> "",
     body |-> BodyText(Unparseable, FALSE)]
UpstreamHttp(status, statusText, body) ==
    [kind |-> "http", status |-> status, statusText |-> statusText,
     body |-> body]
NoUpstream ==
    [kind |-> "none", status |-> 0, statusText |-> "",
     body |-> BodyText(Unparseable, FALSE)]

UpstreamBodies ==
    {BodyText(Unparseable, FALSE)}
        \cup {BodyText(v, sp) :
                v \in {JsonNull, JsonObject(Null), JsonObject(Arr(<<>>)),
                       JsonObject(Arr(<<SvAir>>))},
                sp \in BOOLEAN}

Upstreams ==
    {UpstreamRejected}
        \cup {UpstreamHttp(404, "Not Found", BodyText(Unparseable, FALSE)),
              UpstreamHttp(503, "Service Unavailable",
                           BodyText(JsonNull, FALSE)),
              UpstreamHttp(429, "", BodyText(Unparseable, FALSE))}
        \cup {UpstreamHttp(200, "OK", b) : b \in UpstreamBodies}

NotOkResponseDefaultStatus(upstream) ==
    NextResponseJsonOk(
        ErrorObject(<<"Error fetching from OpenSky Network: ",
                      upstream.statusText>>))

\* line 22
NotOkResponse(upstream) ==
    NextResponseJson(
        ErrorObject(<<"Error fetching from OpenSky Network: ",
                      upstream.statusText>>),
        upstream.status)

\* lines 12-26, the try block after the await of fetch: a response
\* returned, or an exception thrown
TryBlock(upstream) ==
    IF upstream.kind = "rejected"
    THEN [kind |-> "throw", isError |-> TRUE, message |-> "fetch failed"]
    ELSE IF ~ResponseOk(upstream)
    THEN [kind |-> "return", response |-> NotOkResponse(upstream)]
    ELSE LET data == JsonParse(upstream.body)
         IN IF data.kind = "throw" THEN data
            ELSE [kind |-> "return",
                  response |-> NextResponseJsonOk(data.value)]

\* lines 27-33
CatchBlock(error) ==
    LET errorMessage ==
            IF error.isError THEN error.message ELSE "Unknown error occurred"
    IN NextResponseJson(
           ErrorObject(<<"Internal Server Error: ", errorMessage>>), 500)

NoGatewayResponse == [status |-> 0, body |-> BodyText(Unparseable, FALSE)]

\* no request is being served by the Gateway
GatewayIdle ==
    [phase |-> "idle", query |-> <<>>, calls |-> <<>>,
     upstream |-> NoUpstream, response |-> NoGatewayResponse,
     threw |-> FALSE]

\* the other variables of the model, which the Gateway does not touch
trackerVars ==
    <<apiKey, isLoaded, loadError, instance, map, zoom, bounds,
      aircraftData, sent, inflight, lastFailed, dataFrom,
      events, runs, uncaught, last, gated, viewState>>

\* lines 3-13: the parameters are read, the URL is built, fetch is called
GET ==
    /\ gateway.phase = "received"
    /\ LET lamin == SearchParamsGet(gateway.query, "lamin")
           lomin == SearchParamsGet(gateway.query, "lomin")
           lamax == SearchParamsGet(gateway.query, "lamax")
           lomax == SearchParamsGet(gateway.query, "lomax")
       IN gateway' =
            [gateway EXCEPT
               !.phase = "awaiting",
               !.calls = Append(@, OpenSkyURL(lamin, lomin, lamax, lomax))]
    /\ UNCHANGED trackerVars

\* lines 12-33: what the handler's promise settles with
TryCatch(upstream) ==
    LET tried == TryBlock(upstream)
    IN IF tried.kind = "throw"
       THEN [kind |-> "return", response |-> CatchBlock(tried)]
       ELSE tried

\* lines 13-33, once the upstream fetch has settled with `upstream`
GETSettled(upstream) ==
    /\ gateway.phase = "awaiting"
    /\ LET result == TryCatch(upstream)
       IN gateway' =
            [gateway EXCEPT
               !.phase = "responded",
               !.upstream = upstream,
               !.threw = (result.kind = "throw"),
               !.response = IF result.kind = "return" THEN result.response
                            ELSE NoGatewayResponse]
    /\ UNCHANGED trackerVars

\* a request with four numeric parameters has arrived
InitGateway ==
    /\ apiKey = TRUE
    /\ isLoaded = FALSE
    /\ loadError = FALSE
    /\ instance = FALSE
    /\ map = NoMap
    /\ zoom = Undefined
    /\ bounds = NoBounds
    /\ aircraftData = <<>>
    /\ sent = <<>>
    /\ inflight = {}
    /\ lastFailed = 0
    /\ dataFrom = 0
    /\ events = 0
    /\ runs = 0
    /\ uncaught = FALSE
    /\ last = Step("none")
    /\ gated = FALSE
    /\ viewState = InitialViewState
    /\ \E la1, lo1, la2, lo2 \in ParamValues :
          gateway =
            [GatewayIdle EXCEPT
               !.phase = "received",
               !.query = [n \in {"lamin", "lomin", "lamax", "lomax"} |->
                            CASE n = "lamin" -> NumberToString(la1)
                              [] n = "lomin" -> NumberToString(lo1)
                              [] n = "lamax" -> NumberToString(la2)
                              [] OTHER -> NumberToString(lo2)]]

NextGateway ==
    \/ GET
    \/ \E upstream \in Upstreams : GETSettled(upstream)

SpecGateway == InitGateway /\ [][NextGateway]_vars

----------------------------------------------------------------------------
(* The component and its handlers *)

MountedWithoutKey == ~loadError /\ isLoaded

\* lines 280-288: the map and the overlay are rendered
Mounted == ~loadError /\ isLoaded /\ apiKey

LoaderSucceeds ==
    /\ ~isLoaded /\ ~loadError
    /\ isLoaded' = TRUE
    /\ UNCHANGED <<apiKey, loadError, instance, map, zoom, bounds,
                   aircraftData, sent, inflight, lastFailed, dataFrom,
                   events, runs, uncaught, last, gated, viewState, gateway>>

LoaderFails ==
    /\ ~isLoaded /\ ~loadError
    /\ loadError' = TRUE
    /\ UNCHANGED <<apiKey, isLoaded, instance, map, zoom, bounds,
                   aircraftData, sent, inflight, lastFailed, dataFrom,
                   events, runs, uncaught, last, gated, viewState, gateway>>

SetMapDropped(currentMap) == NoMap

\* line 222: setMap(currentMap); the component has re-rendered with the new
\* state before the widget delivers its next event
SetMap(currentMap) == currentMap

\* lines 221-224, on the widget's map-ready signal
onMapLoad(z, b) ==
    /\ Mounted /\ ~instance
    /\ events < MaxEvents
    /\ instance' = TRUE
    /\ zoom' = z /\ bounds' = b
    /\ events' = events + 1
    /\ map' = SetMap(TheMap)
    /\ fetchData(TheMap, z, b)
    /\ UNCHANGED <<apiKey, isLoaded, loadError, lastFailed, uncaught,
                   viewState, gateway>>

\* lines 226-230, on the widget's idle signal
onMapIdle ==
    /\ instance
    /\ events < MaxEvents
    /\ events' = events + 1
    /\ IF map # NoMap
       THEN fetchData(map, zoom, bounds)
       ELSE /\ last' = Step("ignored")
            /\ UNCHANGED <<aircraftData, sent, inflight, dataFrom, runs,
                           gated>>
    /\ UNCHANGED <<apiKey, isLoaded, loadError, instance, map, zoom, bounds,
                   lastFailed, uncaught, viewState, gateway>>

\* the user pans or zooms: the widget reports another viewport
ViewportChange(z, b) ==
    /\ instance
    /\ <<z, b>> # <<zoom, bounds>>
    /\ zoom' = z /\ bounds' = b
    /\ UNCHANGED <<apiKey, isLoaded, loadError, instance, map,
                   aircraftData, sent, inflight, lastFailed, dataFrom,
                   events, runs, uncaught, last, gated, viewState, gateway>>

RemainingCancelOlder(pending, q) == {r \in pending : r > q}

\* each invocation awaits its own promise only: the others stay suspended
Remaining(pending, q) == pending \ {q}

\* fetch of query q settles with `response`: lines 185-218 run
Completion(q, response) ==
    /\ q \in inflight
    /\ \E result \in {HandleResponse(response, aircraftData)} :
          /\ aircraftData' = result.data
          /\ uncaught' = (uncaught \/ result.propagated)
          /\ lastFailed' = IF result.outcome # "success" /\ q > lastFailed
                           THEN q ELSE lastFailed
          /\ dataFrom' = IF result.outcome = "success" THEN q ELSE 0
    /\ inflight' = Remaining(inflight, q)
    /\ last' = [ev |-> "completion", qid |-> q, response |-> response,
                center |-> NoCenter]
    /\ UNCHANGED <<apiKey, isLoaded, loadError, instance, map, zoom, bounds,
                   sent, events, runs, gated, viewState, gateway>>

Init ==
    /\ apiKey \in BOOLEAN
    /\ isLoaded = FALSE
    /\ loadError = FALSE
    /\ instance = FALSE
    /\ map = NoMap
    /\ zoom = Undefined
    /\ bounds = NoBounds
    /\ aircraftData = <<>>
    /\ sent = <<>>
    /\ inflight = {}
    /\ lastFailed = 0
    /\ dataFrom = 0
    /\ events = 0
    /\ runs = 0
    /\ uncaught = FALSE
    /\ last = Step("none")
    /\ gated = FALSE
    /\ viewState = InitialViewState
    /\ gateway = GatewayIdle

Next ==
    \/ LoaderSucceeds
    \/ LoaderFails
    \/ \E z \in Zooms, b \in BoundsSet : onMapLoad(z, b)
    \/ onMapIdle
    \/ \E z \in Zooms, b \in BoundsSet : ViewportChange(z, b)
    \/ \E q \in inflight, response \in Responses : Completion(q, response)

Spec == Init /\ [][Next]_vars

----------------------------------------------------------------------------
(* The component with the bounds_changed listeners. The listeners write    *)
(* viewState only, which no handler of Spec reads, so Spec leaves them out *)
(* and SpecView runs them next to every handler.                           *)

NewViewStateSwapped(newCenter, newZoom) ==
    [longitude |-> newCenter.lat, latitude |-> newCenter.lng,
     zoom |-> newZoom.v, pitch |-> 0, bearing |-> 0]

\* lines 247-253 and 320-326: the object given to setViewState
NewViewState(newCenter, newZoom) ==
    [longitude |-> newCenter.lng, latitude |-> newCenter.lat,
     zoom |-> newZoom.v, pitch |-> 0, bearing |-> 0]

\* the widget's bounds_changed signal: the listener of lines 242-255 and the
\* onBoundsChanged prop of lines 315-328 both run, with newCenter what
\* map.getCenter() returns
BoundsChanged(newCenter) ==
    /\ instance
    /\ viewState' = IF map # NoMap /\ zoom # Undefined /\ newCenter # NoCenter
                    THEN NewViewState(newCenter, zoom)
                    ELSE viewState
    /\ last' = [ev |-> "bounds_changed", qid |-> 0, response |-> NoResponse,
                center |-> newCenter]
    /\ UNCHANGED <<apiKey, isLoaded, loadError, instance, map, zoom, bounds,
                   aircraftData, sent, inflight, lastFailed, dataFrom,
                   events, runs, uncaught, gated, gateway>>

NextView ==
    \/ LoaderSucceeds
    \/ LoaderFails
    \/ \E z \in Zooms, b \in BoundsSet : onMapLoad(z, b)
    \/ onMapIdle
    \/ \E z \in Zooms, b \in BoundsSet : ViewportChange(z, b)
    \/ \E q \in inflight, response \in ViewResponses : Completion(q, response)
    \/ \E newCenter \in Centers : BoundsChanged(newCenter)

SpecView == Init /\ [][NextView]_vars

----------------------------------------------------------------------------
(* The decoding alone: a settled response and a previous record set are    *)
(* drawn, and lines 185-218 are applied to them.                           *)

InitDecode ==
    /\ apiKey = TRUE
    /\ isLoaded = TRUE
    /\ loadError = FALSE
    /\ instance = TRUE
    /\ map = TheMap
    /\ zoom = Num(ZoomThreshold)
    /\ bounds = BoundsTokyo
    /\ aircraftData \in {<<>>, <<ToAircraftData(SvGround)>>}
    /\ sent = <<Url(MapBounds(BoundsTokyo))>>
    /\ inflight = {1}
    /\ lastFailed = 0
    /\ dataFrom = 0
    /\ events = 1
    /\ runs = 1
    /\ uncaught = FALSE
    /\ \E response \in DecodeResponses :
          last = [ev |-> "settled", qid |-> 1, response |-> response,
                  center |-> NoCenter]
    /\ gated = FALSE
    /\ viewState = InitialViewState
    /\ gateway = GatewayIdle

Decode ==
    /\ last.ev = "settled"
    /\ Completion(last.qid, last.response)

SpecDecode == InitDecode /\ [][Decode]_vars

----------------------------------------------------------------------------
(* Helpers of the properties *)

\* a step in which fetchData ran its decision
FetchDataRan == runs' = runs + 1

\* the integer a parameter's characters denote, as a reader of the URL parses it
DigitValue(c) == CHOOSE d \in 0..9 : DigitChar[d + 1] = c

RECURSIVE ParseDigits(_)
ParseDigits(cs) ==
    IF cs = <<>> THEN 0
    ELSE 10 * ParseDigits(SubSeq(cs, 1, Len(cs) - 1)) + DigitValue(cs[Len(cs)])

ParseNumber(cs) ==
    IF cs # <<>> /\ Head(cs) = "-" THEN 0 - ParseDigits(Tail(cs))
    ELSE ParseDigits(cs)

\* the response was a failure: rejected fetch, non-success status, or a body
\* that does not parse
IsFailure(response) ==
    \/ response.kind = "rejected"
    \/ response.kind = "http" /\ response.status \notin 200..299
    \/ response.kind = "http" /\ response.json.t = "unparseable"

\* the response was handled as a success
IsSuccess(response) ==
    /\ response.kind = "http"
    /\ response.status \in 200..299
    /\ response.json.t = "object"

\* the StateVector has a number at indices 5 and 6
HasPosition(sv) ==
    /\ 5 \in DOMAIN sv /\ sv[5].t = "number"
    /\ 6 \in DOMAIN sv /\ sv[6].t = "number"

\* the `states` of a successful response, empty when null or absent
StatesOf(response) ==
    IF response.json.states.t = "array" THEN response.json.states.v ELSE <<>>

\* ids of the queries whose response has been handled
Handled == (1..Len(sent)) \ inflight

----------------------------------------------------------------------------
(* C1: whenever fetchData runs on a map-ready or idle event and the zoom   *)
(* read is undefined or below 7, the aircraft record set is empty after    *)
(* the step and no query was sent by it.                                   *)
C1_ZoomGate ==
    [][(FetchDataRan /\ (zoom' = Undefined \/ zoom'.v < 7))
          => (aircraftData' = <<>> /\ sent' = sent /\ inflight' = inflight)]_vars

\* the gate ran at zoom 6 after an earlier query had completed
C1_Witness ==
    /\ last.ev = "gate" /\ zoom = Num(6)
    /\ sent # <<>> /\ inflight = {} /\ aircraftData = <<>>

(* C2: when fetchData runs with zoom >= 7 and bounds available, the step   *)
(* sends exactly one query, and its four parameters denote the south-west  *)
(* and north-east corners of the bounds read in that step.                 *)
C2_OneQueryWithBounds ==
    [][(FetchDataRan /\ zoom' # Undefined /\ zoom'.v >= 7 /\ bounds' # NoBounds)
          => /\ Len(sent') = Len(sent) + 1
             /\ SubSeq(sent', 1, Len(sent)) = sent
             /\ LET url == sent'[Len(sent')]
                IN /\ url.path = "/api/states"
                   /\ ParseNumber(url.lamin) = bounds'.sw.lat
                   /\ ParseNumber(url.lomin) = bounds'.sw.lng
                   /\ ParseNumber(url.lamax) = bounds'.ne.lat
                   /\ ParseNumber(url.lomax) = bounds'.ne.lng]_vars

\* a query was sent for bounds with negative coordinates
C2_Witness ==
    /\ last.ev = "query" /\ zoom = Num(7) /\ bounds = BoundsRio
    /\ sent # <<>> /\ sent[Len(sent)].lamin = <<"-", "2", "3">>

(* C3: in every reachable state every record of the aircraft record set    *)
(* has a longitude and a latitude that are neither null nor undefined, and *)
(* no record comes from a StateVector whose longitude or latitude is null  *)
(* or missing.                                                             *)
C3_RecordsHavePosition ==
    \A i \in DOMAIN aircraftData :
        /\ aircraftData[i].longitude \notin {Null, Undefined}
        /\ aircraftData[i].latitude \notin {Null, Undefined}
        /\ \A sv \in StateVectors :
              ~HasPosition(sv) => aircraftData[i].icao24 # At(sv, 0)

\* a successful response holding a StateVector with a null latitude was handled
C3_Witness ==
    /\ last.ev = "completion" /\ IsSuccess(last.response)
    /\ \E i \in DOMAIN StatesOf(last.response) :
          At(StatesOf(last.response)[i], 6) = Null
             /\ At(StatesOf(last.response)[i], 5) # Null

(* C4: after a completion that was a failure (non-success status, rejected *)
(* fetch or unparseable body) has been handled, the aircraft record set is *)
(* empty and no exception has left fetchData.                              *)
C4_FailureClears ==
    (last.ev = "completion" /\ IsFailure(last.response))
        => (aircraftData = <<>> /\ ~uncaught)

\* the second query failed after the first had been handled
C4_Witness ==
    /\ last.ev = "completion" /\ last.qid = 2
    /\ last.response = Http(503, JsonObject(Undefined))
    /\ 1 \in Handled

(* C5: once a query has failed, a non-empty aircraft record set comes from *)
(* a query issued after the failed one.                                    *)
C5_NoStaleAfterFailure ==
    (lastFailed # 0 /\ aircraftData # <<>>) => dataFrom > lastFailed

(* C6: when fetchData runs with zoom >= 7 and the bounds unavailable, the  *)
(* step sends no query and leaves the aircraft record set as it was.       *)
C6_SkipKeepsData ==
    [][(FetchDataRan /\ zoom' # Undefined /\ zoom'.v >= 7 /\ bounds' = NoBounds)
          => (sent' = sent /\ inflight' = inflight
                 /\ aircraftData' = aircraftData)]_vars

\* a cycle was skipped while records were displayed
C6_Witness ==
    /\ last.ev = "skip" /\ bounds = NoBounds /\ zoom = Num(7)
    /\ aircraftData # <<>>

(* C7: after a successful completion the aircraft record set is exactly   *)
(* the records of that response: one per StateVector of `states` that has  *)
(* a longitude and a latitude, in the order of the response, nothing kept  *)
(* from the set before; null or absent `states` give the empty set.        *)
C7_SuccessReplaces ==
    (last.ev = "completion" /\ IsSuccess(last.response))
        => LET kept == SelectSeq(StatesOf(last.response), HasPosition)
           IN /\ Len(aircraftData) = Len(kept)
              /\ \A i \in 1..Len(kept) :
                    /\ aircraftData[i].icao24 = kept[i][0]
                    /\ aircraftData[i].longitude = kept[i][5]
                    /\ aircraftData[i].latitude = kept[i][6]

\* three StateVectors, the middle one without a position, gave two records
C7_Witness ==
    /\ last.ev = "completion" /\ IsSuccess(last.response)
    /\ StatesOf(last.response) = <<SvGround, SvNoLon, SvAir>>
    /\ Len(aircraftData) = 2
    /\ aircraftData[1].icao24 = Str("d4") /\ aircraftData[2].icao24 = Str("a1")

(* C8: the queries sent never outnumber the map-ready and idle events, and *)
(* no step sends more queries than it delivers events: a completion sends  *)
(* none, an event at most one.                                             *)
C8_NoRetryNoFanOut ==
    /\ [](Len(sent) <= events)
    /\ [][Len(sent') - Len(sent) <= events' - events]_vars

\* every event sent its query, and a failed completion was handled since
C8_Witness ==
    /\ events = 2 /\ Len(sent) = 2
    /\ last.ev = "completion" /\ lastFailed # 0

(* C9: a query in flight stays in flight until its own response is         *)
(* handled: no event and no other query's completion cancels it, so the    *)
(* responses of overlapping queries are handled in any order.              *)
C9_NeverCancelled ==
    [][\A q \in inflight :
          q \in inflight' \/ (last'.ev = "completion" /\ last'.qid = q)]_vars

\* the set shown was decoded from the first query although the response of
\* the second, sent for another viewport, had been handled before
C9_Witness ==
    /\ dataFrom = 1 /\ 2 \in Handled
    /\ last.ev = "completion" /\ last.qid = 1
    /\ sent[1] # sent[2] /\ aircraftData # <<>>

(* C10: every idle signal after map-ready runs fetchData's decision once,  *)
(* on the zoom and bounds the map reports at that moment: the gate when    *)
(* the zoom is undefined or below 7, the skip when the bounds are missing, *)
(* a query otherwise.                                                      *)
C10_IdleRunsDecision ==
    [][(instance /\ events' = events + 1)
          => /\ runs' = runs + 1
             /\ last'.ev =
                    IF zoom = Undefined \/ zoom.v < 7 THEN "gate"
                    ELSE IF bounds = NoBounds THEN "skip"
                    ELSE "query"]_vars

\* an idle signal after map-ready ran the decision
C10_Witness ==
    /\ instance /\ events = 2 /\ runs = 2
    /\ last.ev \in {"gate", "skip", "query"}


(* C11: a failure leaves nothing behind that blocks later cycles: once a   *)
(* query has failed, every idle event at zoom >= 7 with bounds available   *)
(* sends a fresh query, and when a query issued after the failure succeeds *)
(* and no other handler has run since, the aircraft record set is the      *)
(* records decoded from its response.                                      *)
C11_SelfHeals ==
    /\ [][(lastFailed # 0 /\ instance /\ events' = events + 1
              /\ zoom # Undefined /\ zoom.v >= 7 /\ bounds # NoBounds)
             => /\ Len(sent') = Len(sent) + 1
                /\ Len(sent') \in inflight'
                /\ Len(sent') > lastFailed]_vars
    /\ []((lastFailed # 0 /\ last.ev = "completion"
              /\ last.qid > lastFailed /\ IsSuccess(last.response))
             => LET kept == SelectSeq(StatesOf(last.response), HasPosition)
                IN /\ dataFrom = last.qid
                   /\ Len(aircraftData) = Len(kept)
                   /\ \A i \in 1..Len(kept) :
                         aircraftData[i].icao24 = kept[i][0])

\* the first query failed, the second succeeded and its records are shown
C11_Witness ==
    /\ lastFailed = 1 /\ last.ev = "completion" /\ last.qid = 2
    /\ IsSuccess(last.response) /\ aircraftData # <<>>


(* C14: while the API key is absent, or the loader has failed or has not   *)
(* finished, the map is not mounted: no map object exists, no map-ready or *)
(* idle handler has run, no query has been sent and the aircraft record    *)
(* set is empty.                                                           *)
C14_BlockedUntilLoaded ==
    (~apiKey \/ loadError \/ ~isLoaded)
        => /\ ~instance /\ map = NoMap
           /\ events = 0 /\ runs = 0
           /\ sent = <<>> /\ inflight = {}
           /\ aircraftData = <<>>

\* the script has loaded but the key is absent: only the message is rendered
C14_Witness == ~apiKey /\ isLoaded /\ ~loadError /\ ~instance


\* the number at index i of a StateVector, 0 when it is null or absent
NumberOrZero(sv, i) ==
    IF i \in DOMAIN sv /\ sv[i].t = "number" THEN sv[i] ELSE Num(0)

(* C15: after a successful completion every StateVector that has a         *)
(* longitude and a latitude has its record, read by position: index 0 the  *)
(* id, 5 the longitude, 6 the latitude, 8 the on-ground flag, 10 the       *)
(* heading and 17 the category, with heading 0 and category 0 when index   *)
(* 10 or 17 is null or absent.                                             *)
C15_PositionalDecode ==
    (last.ev = "completion" /\ IsSuccess(last.response))
        => LET kept == SelectSeq(StatesOf(last.response), HasPosition)
           IN /\ Len(aircraftData) = Len(kept)
              /\ \A i \in 1..Len(kept) :
                    /\ aircraftData[i].icao24 = kept[i][0]
                    /\ aircraftData[i].longitude = kept[i][5]
                    /\ aircraftData[i].latitude = kept[i][6]
                    /\ aircraftData[i].on_ground = kept[i][8]
                    /\ aircraftData[i].true_track = NumberOrZero(kept[i], 10)
                    /\ aircraftData[i].category = NumberOrZero(kept[i], 17)

\* a vector with heading and category and one with a null heading and no
\* category were decoded
C15_Witness ==
    /\ last.ev = "completion" /\ IsSuccess(last.response)
    /\ StatesOf(last.response) = <<SvAir, SvGround>>
    /\ aircraftData[1].true_track = Num(90) /\ aircraftData[1].category = Num(3)
    /\ aircraftData[2].true_track = Num(0) /\ aircraftData[2].category = Num(0)

(* C16: the rotation of every record's icon is -(heading) + 90, a missing  *)
(* heading counting as 0: heading 0 gives 90, 90 gives 0, 180 gives -90.   *)
C16_Rotation ==
    \A i \in DOMAIN aircraftData :
        LET track == aircraftData[i].true_track
            heading == IF track.t = "number" THEN track.v ELSE 0
        IN /\ IconLayer[i].angle + heading = 90
           /\ heading = 0 => IconLayer[i].angle = 90
           /\ heading = 90 => IconLayer[i].angle = 0
           /\ heading = 180 => IconLayer[i].angle = -90

\* icons for a null heading, heading 90 and heading 180 are drawn
C16_Witness ==
    /\ last.ev = "completion"
    /\ StatesOf(last.response) = <<SvGround, SvAir, SvSouth>>
    /\ Len(aircraftData) = 3
    /\ IconLayer[1].angle = 90 /\ IconLayer[2].angle = 0
    /\ IconLayer[3].angle = -90

(* C17: size and colour of every record's icon follow the on-ground flag   *)
(* alone: on the ground size 10 and red [255,0,0,200], airborne size 20    *)
(* and green [0,255,0,200]; an icon on the ground is smaller than any      *)
(* airborne one.                                                           *)
C17_SizeAndColour ==
    /\ \A i \in DOMAIN aircraftData :
          IF aircraftData[i].on_ground = Bool(TRUE)
          THEN /\ IconLayer[i].size = 10
               /\ IconLayer[i].color = <<255, 0, 0, 200>>
          ELSE /\ IconLayer[i].size = 20
               /\ IconLayer[i].color = <<0, 255, 0, 200>>
    /\ \A i, j \in DOMAIN aircraftData :
          (aircraftData[i].on_ground = Bool(TRUE)
              /\ aircraftData[j].on_ground = Bool(FALSE))
             => IconLayer[i].size < IconLayer[j].size

\* an aircraft on the ground and an airborne one are drawn together
C17_Witness ==
    /\ last.ev = "completion"
    /\ Len(aircraftData) = 2
    /\ aircraftData[1].on_ground = Bool(TRUE)
    /\ aircraftData[2].on_ground = Bool(FALSE)
    /\ IconLayer[1].size = 10 /\ IconLayer[2].size = 20


----------------------------------------------------------------------------
\* C18: the zoom-gate clear does not cancel the queries in flight. A gate
\* step leaves every suspended invocation suspended, and when the latest
\* viewport-settled event was gated (zoom < 7) a successful response to an
\* earlier query still replaces the record set with its decoded records:
\* "the latest settled zoom is below 7" does not imply an empty record set.
C18_GateDoesNotCancel ==
    /\ [][(events' = events + 1 /\ last'.ev = "gate")
             => inflight' = inflight]_vars
    /\ []((gated /\ last.ev = "completion" /\ IsSuccess(last.response))
             => LET kept == SelectSeq(StatesOf(last.response), HasPosition)
                IN /\ dataFrom = last.qid
                   /\ Len(aircraftData) = Len(kept)
                   /\ \A i \in 1..Len(kept) :
                         aircraftData[i].icao24 = kept[i][0])

\* a response handled after the gate has repopulated the record set
C18_Witness ==
    /\ gated /\ last.ev = "completion" /\ last.qid = 1
    /\ IsSuccess(last.response) /\ aircraftData # <<>>


----------------------------------------------------------------------------
\* C19: the two pieces of state are updated independently. A bounds-changed
\* step replaces viewState by the map's current center and zoom with pitch 0
\* and bearing 0 when both are defined, leaves it alone otherwise, and leaves
\* aircraftData unchanged; every fetchData step (gate, skip, query, and the
\* completion of a query as success or failure) leaves viewState unchanged.
C19_IndependentUpdates ==
    [][/\ (last'.ev = "bounds_changed"
              /\ (last' # last \/ viewState' # viewState))
            => /\ aircraftData' = aircraftData
               /\ viewState' =
                     IF zoom # Undefined /\ last'.center # NoCenter
                     THEN [longitude |-> last'.center.lng,
                           latitude |-> last'.center.lat,
                           zoom |-> zoom.v, pitch |-> 0, bearing |-> 0]
                     ELSE viewState
       /\ (events' = events + 1 \/ inflight' # inflight)
            => viewState' = viewState]_vars

\* the view has followed the map to another center and zoom while the
\* records of an earlier response are still shown
C19_Witness ==
    /\ last.ev = "bounds_changed" /\ last.center = CenterRio
    /\ zoom = Num(6)
    /\ viewState = [longitude |-> -43, latitude |-> -22, zoom |-> 6,
                    pitch |-> 0, bearing |-> 0]
    /\ aircraftData # <<>>


----------------------------------------------------------------------------
(* Helpers of the Gateway's properties *)

\* the upstream call failed: fetch rejected, a non-OK status, or an OK
\* response whose body does not parse
UpstreamFailed(upstream) ==
    \/ upstream.kind = "rejected"
    \/ upstream.kind = "http" /\ upstream.status \notin 200..299
    \/ upstream.kind = "http" /\ upstream.body.value = Unparseable

\* the response body is an object { error: text }
IsErrorBody(body) ==
    /\ body.value # Unparseable
    /\ DOMAIN body.value = {"t", "error"}
    /\ body.value.t = "object"
    /\ Len(body.value.error) > 0

----------------------------------------------------------------------------
\* C12: for every incoming request with four numeric parameters the Gateway
\* makes exactly one upstream request, to the states endpoint, carrying
\* lamin, lomin, lamax, lomax with the values it received, and when upstream
\* answers OK with a parseable JSON body the Gateway answers 200 with a
\* body denoting the same JSON value.
C12_GatewayPassthrough ==
    /\ gateway.phase = "received" => gateway.calls = <<>>
    /\ gateway.phase \in {"awaiting", "responded"}
         => /\ Len(gateway.calls) = 1
            /\ gateway.calls[1].origin = "https://opensky-network.org"
            /\ gateway.calls[1].path = "/api/states/all"
            /\ Len(gateway.calls[1].query) = Len(ParamNames)
            /\ \A i \in DOMAIN ParamNames :
                  gateway.calls[1].query[i]
                      = <<ParamNames[i], gateway.query[ParamNames[i]]>>
    /\ (gateway.phase = "responded" /\ ~UpstreamFailed(gateway.upstream))
         => /\ ~gateway.threw
            /\ gateway.response.status = 200
            /\ JsonParse(gateway.response.body)
                  = JsonParse(gateway.upstream.body)

\* lamin=10, lomin=10, lamax=20, lomax=20 and upstream answered 200 with an
\* empty states array, written with white space
C12_Witness ==
    /\ gateway.phase = "responded"
    /\ ParseNumber(gateway.query["lamin"]) = 10
    /\ ParseNumber(gateway.query["lomin"]) = 10
    /\ ParseNumber(gateway.query["lamax"]) = 20
    /\ ParseNumber(gateway.query["lomax"]) = 20
    /\ gateway.upstream
         = UpstreamHttp(200, "OK", BodyText(JsonObject(Arr(<<>>)), TRUE))
    /\ gateway.response.status = 200
    /\ gateway.response.body.value = JsonObject(Arr(<<>>))

----------------------------------------------------------------------------
\* C13: when upstream answers with a non-OK status the Gateway answers with
\* that status and a body { error } whose text contains the upstream status
\* text; when the upstream call or the JSON parse throws it answers 500 with
\* a body { error }; the handler never throws and never answers a failed
\* upstream call with a success status.
C13_GatewayFailureMapping ==
    gateway.phase = "responded"
        => /\ ~gateway.threw
           /\ (gateway.upstream.kind = "http"
                  /\ gateway.upstream.status \notin 200..299)
                => /\ gateway.response.status = gateway.upstream.status
                   /\ IsErrorBody(gateway.response.body)
                   /\ \E i \in DOMAIN gateway.response.body.value.error :
                         gateway.response.body.value.error[i]
                             = gateway.upstream.statusText
           /\ (gateway.upstream.kind = "rejected"
                  \/ (gateway.upstream.kind = "http"
                         /\ gateway.upstream.status \in 200..299
                         /\ gateway.upstream.body.value = Unparseable))
                => /\ gateway.response.status = 500
                   /\ IsErrorBody(gateway.response.body)
           /\ UpstreamFailed(gateway.upstream)
                => gateway.response.status \notin 200..299

\* upstream answered 503 Service Unavailable and the Gateway passed it on
C13_Witness ==
    /\ gateway.phase = "responded"
    /\ gateway.upstream.status = 503
    /\ gateway.response.status = 503
    /\ gateway.response.body.value
         = ErrorObject(<<"Error fetching from OpenSky Network: ",
                         "Service Unavailable">>)

====
